---- MODULE Spec2Model ----
(***************************************************************************)
(* Model of the auth_kit authorization core: the FlexibleMatcher scope     *)
(* matcher (src/src/auth/scope.rs), the strategy dispatch of               *)
(* Authorization::new / Authorization::authorize (src/src/auth/auth_z.rs)  *)
(* and the policy data model (src/src/model.rs).                           *)
(*                                                                         *)
(* Rust strings are modelled as sequences of one-character strings, so     *)
(* that splitting, joining, case conversion and comparison are computed    *)
(* the way the code computes them.  Option<T> is modelled as a sequence of *)
(* length 0 (None) or 1 (Some).                                            *)
(***************************************************************************)
EXTENDS Integers, Sequences, FiniteSets, TLC

VARIABLES
    pc,              \* position of the caller: "ready", "constructed", "failed", "done"
    op,              \* operation the caller performs: "matches", "awm", "authz"
    user_token,      \* FlexibleMatcher::matches argument
    required_token,  \* FlexibleMatcher::matches / authorize_with_matcher argument
    scope_list,      \* the tokens the caller laid out in user_scope_str
    user_scope_str,  \* authorize_with_matcher argument
    match_result,    \* Option<bool>: result of matches / authorize_with_matcher
    strategy_name,   \* Authorization::new argument
    authz,           \* Option<Result<Authorization, AuthError>>
    context,         \* AuthContext {user, claims, resource}
    service,         \* authorize argument
    permission,      \* authorize argument
    delimiter,       \* authorize argument, Option<&str>
    result,          \* Option<Result<(), AuthError>> of authorize
    users,           \* Authentication::users, the map from email to User
    history          \* the calls made so far on one value, with what they returned

vars == << pc, op, user_token, required_token, scope_list, user_scope_str,
           match_result, strategy_name, authz, context, service, permission,
           delimiter, result, users, history >>

---------------------------------------------------------------------------
(* Option<T> *)

None == << >>

Some(x) == << x >>

is_some(o) == Len(o) = 1

unwrap(o) == o[1]

---------------------------------------------------------------------------
(* Bounds of the explored input space *)

\* largest number of delimiter-separated parts of a generated scope token
MaxParts == 3

\* largest number of tokens laid out in a scope string
MaxTokens == 2

\* largest number of entries of claims.scopes
MaxScopes == 2

\* largest number of entries of role.permissions
MaxPerms == 2

\* largest number of authorize calls made on one Authorization value
MaxCalls == 3

\* largest number of calls made on one Authentication value
MaxAuthnCalls == 4

---------------------------------------------------------------------------
(* Characters and strings *)

STAR == << "*" >>

EMPTY == << >>

SPACE == << " " >>

\* the characters str::split_whitespace treats as separators (White_Space)
WhiteSpace == { " ", "\t", "\n" }

\* str::contains for a one-character pattern
contains(s, c) == \E i \in 1..Len(s) : s[i] = c

\* index of the first occurrence of character c in s, 0 when there is none
RECURSIVE find(_, _, _)
find(s, c, i) ==
    IF i > Len(s) THEN 0
    ELSE IF s[i] = c THEN i
    ELSE find(s, c, i + 1)

\* [String]::join(sep)
RECURSIVE join(_, _)
join(list, sep) ==
    IF Len(list) = 0 THEN EMPTY
    ELSE IF Len(list) = 1 THEN list[1]
    ELSE list[1] \o sep \o join(Tail(list), sep)

---------------------------------------------------------------------------
(* src/src/auth/scope.rs *)

\* the delimiters FlexibleMatcher tries, in its order of preference
Delimiters == << ":", ".", "@", "/" >>

\* split with an empty second part when the delimiter is not found
split_without_default(scope, delim) ==
    LET i == find(scope, delim, 1)
    IN  IF i = 0 THEN << scope, EMPTY >>
        ELSE << SubSeq(scope, 1, i - 1), SubSeq(scope, i + 1, Len(scope)) >>

\* split: scope.splitn(2, delim); a missing second part defaults to "*"
split(scope, delim) ==
    LET i == find(scope, delim, 1)
    IN  IF i = 0 THEN << scope, STAR >>
        ELSE << SubSeq(scope, 1, i - 1), SubSeq(scope, i + 1, Len(scope)) >>

\* the body of the loop over the delimiters, from the k-th delimiter on,
\* followed by the fallback to exact match or full wildcard
RECURSIVE matches_from(_, _, _)
matches_from(user, required, k) ==
    IF k > Len(Delimiters)
    THEN user = required \/ user = STAR
    ELSE LET delim == Delimiters[k]
         IN  IF contains(user, delim) \/ contains(required, delim)
             THEN LET u == split(user, delim)
                      r == split(required, delim)
                  IN  (u[1] = STAR \/ u[1] = r[1]) /\ (u[2] = STAR \/ u[2] = r[2])
             ELSE matches_from(user, required, k + 1)

\* FlexibleMatcher::matches(user_token, required_token)
matches(user, required) == matches_from(user, required, 1)

\* str::split_whitespace: maximal runs of non-whitespace characters
RECURSIVE split_whitespace(_, _, _)
split_whitespace(s, i, cur) ==
    LET flush == IF cur = EMPTY THEN << >> ELSE << cur >>
    IN  IF i > Len(s) THEN flush
        ELSE IF s[i] \in WhiteSpace
             THEN flush \o split_whitespace(s, i + 1, EMPTY)
             ELSE split_whitespace(s, i + 1, Append(cur, s[i]))

\* the scope string cut at every single space, empty pieces kept
RECURSIVE split_on_space(_, _, _)
split_on_space(s, i, cur) ==
    IF i > Len(s) THEN << cur >>
    ELSE IF s[i] = " "
         THEN << cur >> \o split_on_space(s, i + 1, EMPTY)
         ELSE split_on_space(s, i + 1, Append(cur, s[i]))

parse_scope_string_on_space(scope_str) == split_on_space(scope_str, 1, EMPTY)

\* parse_scope_string(scope_str)
parse_scope_string(scope_str) == split_whitespace(scope_str, 1, EMPTY)

\* authorize_with_matcher requiring every token to match
authorize_with_matcher_all(scope_str, required) ==
    LET tokens == parse_scope_string(scope_str)
    IN  \A i \in 1..Len(tokens) : matches(tokens[i], required)

\* authorize_with_matcher::<FlexibleMatcher>(user_scope_str, required_token)
authorize_with_matcher(scope_str, required) ==
    LET tokens == parse_scope_string(scope_str)
    IN  \E i \in 1..Len(tokens) : matches(tokens[i], required)

---------------------------------------------------------------------------
(* Calls of the scope matcher: the caller holds its arguments, the call    *)
(* stores its result.                                                      *)

NoContext == [ user |-> None, claims |-> None, resource |-> None ]

\* the authorization variables while only the scope matcher is exercised
AuthzIdle ==
    /\ strategy_name = EMPTY
    /\ authz = None
    /\ context = NoContext
    /\ service = EMPTY
    /\ permission = EMPTY
    /\ delimiter = None
    /\ result = None

\* the scope matcher variables while only the authorization core is exercised
ScopeIdle ==
    /\ user_token = EMPTY
    /\ required_token = EMPTY
    /\ scope_list = << >>
    /\ user_scope_str = EMPTY
    /\ match_result = None

\* HashMap::new(): the map with no key
empty_map == << >>

\* the authentication variables while no Authentication value is exercised
AuthnIdle ==
    /\ users = empty_map
    /\ history = << >>

\* the parts scope tokens are generated from
PartChars == { "a", "b", "*" }

\* the tokens of n parts joined by delimiter d
TokensOf(n, d) ==
    { join([ i \in 1..n |-> << f[i] >> ], << d >>) : f \in [ 1..n -> PartChars ] }

\* tokens that are not a plain joined list: empty, trailing delimiter, mixed
ExtraTokens ==
    { EMPTY, << "a", ":" >>, << "a", ".", "b", ":", "a" >> }

MatchTokens ==
    UNION { TokensOf(n, Delimiters[k]) : n \in 1..MaxParts, k \in 1..Len(Delimiters) }
        \cup ExtraTokens

\* tokens and required tokens for authorize_with_matcher
AwmTokens ==
    { << "a", ":", "b" >>, << "A", ":", "b" >>, << "a", ":", "*" >>, << "b" >>, STAR }

AwmRequired ==
    { << "a", ":", "b" >>, << "A", ":", "b" >>, << "a", ":", "a" >>, << "b" >>, EMPTY }

\* runs of whitespace between two tokens, and at the ends of a scope string
Gaps == { << " " >>, << " ", " " >>, << "\t" >>, << "\n", " " >> }

Margins == { EMPTY, << " " >>, << "\t" >> }

SeqsUpTo(S, n) == UNION { [ 1..k -> S ] : k \in 0..n }

\* the scope string holding the tokens of list with gaps[i] after the i-th
RECURSIVE lay_out(_, _, _)
lay_out(list, gaps, i) ==
    IF i > Len(list) THEN EMPTY
    ELSE IF i = Len(list) THEN list[i]
    ELSE list[i] \o gaps[i] \o lay_out(list, gaps, i + 1)

InitMatches ==
    /\ op = "matches"
    /\ user_token \in MatchTokens
    /\ required_token \in MatchTokens
    /\ scope_list = << >>
    /\ user_scope_str = EMPTY

InitAwm ==
    /\ op = "awm"
    /\ user_token = EMPTY
    /\ required_token \in AwmRequired
    /\ scope_list \in SeqsUpTo(AwmTokens, MaxTokens)
    /\ \E lead \in Margins, trail \in Margins :
         \E gaps \in [ 1..(IF Len(scope_list) = 0 THEN 0 ELSE Len(scope_list) - 1) -> Gaps ] :
            user_scope_str = lead \o lay_out(scope_list, gaps, 1) \o trail

InitScope ==
    /\ pc = "ready"
    /\ match_result = None
    /\ InitMatches \/ InitAwm
    /\ AuthzIdle
    /\ AuthnIdle

\* a call of FlexibleMatcher::matches(user_token, required_token)
Matches ==
    /\ pc = "ready"
    /\ op = "matches"
    /\ match_result' = Some(matches(user_token, required_token))
    /\ pc' = "done"
    /\ UNCHANGED << op, user_token, required_token, scope_list, user_scope_str,
                    strategy_name, authz, context, service, permission,
                    delimiter, result, users, history >>

\* a call of authorize_with_matcher::<FlexibleMatcher>(user_scope_str, required_token)
AuthorizeWithMatcher ==
    /\ pc = "ready"
    /\ op = "awm"
    /\ match_result' = Some(authorize_with_matcher(user_scope_str, required_token))
    /\ pc' = "done"
    /\ UNCHANGED << op, user_token, required_token, scope_list, user_scope_str,
                    strategy_name, authz, context, service, permission,
                    delimiter, result, users, history >>

NextScope == Matches \/ AuthorizeWithMatcher

SpecScope == InitScope /\ [][NextScope]_vars

---------------------------------------------------------------------------
(* Case conversion *)

LowerLetters ==
    << "a", "b", "c", "d", "e", "f", "g", "h", "i", "j", "k", "l", "m",
       "n", "o", "p", "q", "r", "s", "t", "u", "v", "w", "x", "y", "z" >>

UpperLetters ==
    << "A", "B", "C", "D", "E", "F", "G", "H", "I", "J", "K", "L", "M",
       "N", "O", "P", "Q", "R", "S", "T", "U", "V", "W", "X", "Y", "Z" >>

\* position of character c in the alphabet letters, 0 when it is not in it
letter_index(letters, c) ==
    IF \E i \in 1..Len(letters) : letters[i] = c
    THEN CHOOSE i \in 1..Len(letters) : letters[i] = c
    ELSE 0

\* U+017F LATIN SMALL LETTER LONG S, whose Unicode uppercase is "S"
LONG_S == "LONG_S"

\* char::to_uppercase on the modelled characters (Unicode uppercase)
char_to_uppercase(c) ==
    IF letter_index(LowerLetters, c) > 0 THEN UpperLetters[letter_index(LowerLetters, c)]
    ELSE IF c = LONG_S THEN "S"
    ELSE c

\* str::to_uppercase
to_uppercase(s) == [ i \in 1..Len(s) |-> char_to_uppercase(s[i]) ]

\* u8::to_ascii_lowercase: only A..Z change
char_to_ascii_lowercase(c) ==
    IF letter_index(UpperLetters, c) > 0 THEN LowerLetters[letter_index(UpperLetters, c)]
    ELSE c

\* plain string equality, with no case conversion
eq_exact(a, b) == a = b

\* str::eq_ignore_ascii_case
eq_ignore_ascii_case(a, b) ==
    /\ Len(a) = Len(b)
    /\ \A i \in 1..Len(a) : char_to_ascii_lowercase(a[i]) = char_to_ascii_lowercase(b[i])

---------------------------------------------------------------------------
(* src/src/model.rs and src/src/error.rs *)

\* enum Permission
Permissions == { "Create", "Read", "Update", "Delete" }

\* #[derive(Debug)] on Permission: format!("{:?}", perm) is the variant name
debug_fmt(perm) ==
    CASE perm = "Create" -> << "C", "r", "e", "a", "t", "e" >>
      [] perm = "Read"   -> << "R", "e", "a", "d" >>
      [] perm = "Update" -> << "U", "p", "d", "a", "t", "e" >>
      [] perm = "Delete" -> << "D", "e", "l", "e", "t", "e" >>

\* Result values: Ok(..) and the AuthError variants the core returns
Ok == [ kind |-> "Ok" ]

MissingUser == [ kind |-> "MissingUser" ]

MissingClaims == [ kind |-> "MissingClaims" ]

MissingResource == [ kind |-> "MissingResource" ]

AccessDenied(user, svc, perm) ==
    [ kind |-> "AccessDenied", user |-> user, service |-> svc, permission |-> perm ]

InvalidStrategy(name) == [ kind |-> "InvalidStrategy", name |-> name ]

\* AuthStrategy::from_str that compares the name as it was passed
from_str_exact(name) ==
    IF name = << "A", "B", "A", "C" >> THEN [ kind |-> "Ok", strategy |-> "ABAC" ]
    ELSE IF name = << "R", "B", "A", "C" >> THEN [ kind |-> "Ok", strategy |-> "RBAC" ]
    ELSE IF name = << "S", "B", "A" >> THEN [ kind |-> "Ok", strategy |-> "SBA" ]
    ELSE InvalidStrategy(name)

\* AuthStrategy::from_str
from_str(name) ==
    LET upper == to_uppercase(name)
    IN  IF upper = << "A", "B", "A", "C" >> THEN [ kind |-> "Ok", strategy |-> "ABAC" ]
        ELSE IF upper = << "R", "B", "A", "C" >> THEN [ kind |-> "Ok", strategy |-> "RBAC" ]
        ELSE IF upper = << "S", "B", "A" >> THEN [ kind |-> "Ok", strategy |-> "SBA" ]
        ELSE InvalidStrategy(name)

\* Identifiable::identity for User and for Claims
identity(subject) == subject.email

---------------------------------------------------------------------------
(* src/src/auth/auth_z.rs *)

\* Authorization::new(strategy)
Authorization_new(name) == from_str(name)

\* gen_authorize reporting the service and the permission in each other's place
gen_authorize_swapped(subject, svc, perm, allowed) ==
    IF allowed THEN Ok ELSE AccessDenied(identity(subject), perm, svc)

\* gen_authorize(user, service, permission, check_permission), with the
\* value of the closure passed as allowed
gen_authorize(subject, svc, perm, allowed) ==
    IF allowed THEN Ok ELSE AccessDenied(identity(subject), svc, perm)

\* the ABAC comparison with a strict clearance test
abac_check_strict(u, resource) ==
    /\ u.department = resource.department
    /\ u.clearance_level > resource.required_level

\* the closure of the ABAC arm
abac_check(u, resource) ==
    /\ u.department = resource.department
    /\ u.clearance_level >= resource.required_level

\* the closure of the RBAC arm, comparing the names as written
rbac_check_exact(u, p) ==
    \E i \in 1..Len(u.role.permissions) : eq_exact(debug_fmt(u.role.permissions[i]), p)

\* the closure of the RBAC arm
rbac_check(u, p) ==
    \E i \in 1..Len(u.role.permissions) :
        eq_ignore_ascii_case(debug_fmt(u.role.permissions[i]), p)

\* the wildcard Resource with an empty department
empty_resource == [ department |-> EMPTY, required_level |-> 0 ]

\* the Resource substituted when context.resource is None
wildcard_resource == [ department |-> STAR, required_level |-> 0 ]

\* a default delimiter of ":"
colon_delimiter == << ":" >>

\* the delimiter used when the delimiter argument is None
default_delimiter == << "." >>

\* the required tokens of the SBA arm without the bare permission
sba_candidates_without_bare(svc, delim, resource, perm) ==
    << svc \o delim \o resource.department \o delim \o perm,
       svc \o delim \o perm >>

\* the three required tokens of the SBA arm, most specific first
sba_candidates(svc, delim, resource, perm) ==
    << svc \o delim \o resource.department \o delim \o perm,
       svc \o delim \o perm,
       perm >>

\* the closure of the SBA arm
sba_check(scopes, candidates) ==
    \E i \in 1..Len(candidates) : authorize_with_matcher(scopes, candidates[i])

\* the ABAC arm with the resource looked up before the user
authorize_abac_resource_first(ctx, svc, perm) ==
    IF ~is_some(ctx.resource) THEN MissingResource
    ELSE IF ~is_some(ctx.user) THEN MissingUser
    ELSE gen_authorize(unwrap(ctx.user), svc, perm,
                       abac_check(unwrap(ctx.user), unwrap(ctx.resource)))

\* the ABAC arm of authorize
authorize_abac(ctx, svc, perm) ==
    IF ~is_some(ctx.user) THEN MissingUser
    ELSE IF ~is_some(ctx.resource) THEN MissingResource
    ELSE gen_authorize(unwrap(ctx.user), svc, perm,
                       abac_check(unwrap(ctx.user), unwrap(ctx.resource)))

\* the RBAC arm of authorize
authorize_rbac(ctx, svc, perm) ==
    IF ~is_some(ctx.user) THEN MissingUser
    ELSE gen_authorize(unwrap(ctx.user), svc, perm, rbac_check(unwrap(ctx.user), perm))

\* the SBA arm denying claims whose own service is not the requested one
authorize_sba_own_service(ctx, svc, perm, delim_opt) ==
    IF ~is_some(ctx.claims) THEN MissingClaims
    ELSE LET claims == unwrap(ctx.claims)
             resource == IF is_some(ctx.resource) THEN unwrap(ctx.resource)
                         ELSE wildcard_resource
             delim == IF is_some(delim_opt) THEN unwrap(delim_opt) ELSE default_delimiter
             candidates == sba_candidates(svc, delim, resource, perm)
             scopes == join(claims.scopes, SPACE)
         IN  gen_authorize(claims, svc, perm,
                           claims.service = svc /\ sba_check(scopes, candidates))

\* the SBA arm of authorize
authorize_sba(ctx, svc, perm, delim_opt) ==
    IF ~is_some(ctx.claims) THEN MissingClaims
    ELSE LET claims == unwrap(ctx.claims)
             resource == IF is_some(ctx.resource) THEN unwrap(ctx.resource)
                         ELSE wildcard_resource
             delim == IF is_some(delim_opt) THEN unwrap(delim_opt) ELSE default_delimiter
             candidates == sba_candidates(svc, delim, resource, perm)
             scopes == join(claims.scopes, SPACE)
         IN  gen_authorize(claims, svc, perm, sba_check(scopes, candidates))

\* Authorization::authorize(context, service, permission, delimiter) of an
\* Authorization whose strategy is strategy
authorize(strategy, ctx, svc, perm, delim_opt) ==
    CASE strategy = "ABAC" -> authorize_abac(ctx, svc, perm)
      [] strategy = "RBAC" -> authorize_rbac(ctx, svc, perm)
      [] strategy = "SBA"  -> authorize_sba(ctx, svc, perm, delim_opt)

---------------------------------------------------------------------------
(* Calls of the authorization core: the caller holds a strategy name, a    *)
(* context and the arguments of authorize; it constructs an Authorization  *)
(* and, when that succeeds, calls authorize on it.                         *)

\* the range of u8
U8 == 0..255

User(dept, clearance, perms) ==
    [ email |-> << "u", "@", "x" >>,
      password_hash |-> << "h" >>,
      role |-> [ name |-> << "r" >>, permissions |-> perms ],
      department |-> dept,
      clearance_level |-> clearance ]

Claims(scopes) ==
    [ email |-> << "c", "@", "x" >>, service |-> << "s", "v", "c" >>, scopes |-> scopes ]

Resource(dept, level) == [ department |-> dept, required_level |-> level ]

ENG == << "e", "n", "g" >>

OPS == << "o", "p", "s" >>

SVC == << "s", "v", "c" >>

ADM == << "a", "d", "m" >>

PERM == << "p", "e", "r", "m" >>

READ == << "r", "e", "a", "d" >>

Services == { SVC, ADM }

\* the strategy names handed to Authorization::new
StrategyNames ==
    { << "A", "B", "A", "C" >>,
      << "a", "b", "a", "c" >>,
      << "A", "b", "a", "c" >>,
      << "a", "B", "a", "C" >>,
      << "R", "B", "A", "C" >>,
      << "r", "b", "a", "c" >>,
      << "R", "b", "a", "c" >>,
      << "S", "B", "A" >>,
      << "s", "b", "a" >>,
      << "s", "B", "a" >>,
      << "X", "Y", "Z" >>,
      << "x", "y", "z" >>,
      << "J", "W", "T" >>,
      << "R", "B", "A", "C", "X" >>,
      << "B", "A", "C" >>,
      << " ", "s", "b", "a" >> }
      \cup { EMPTY, << LONG_S, "b", "a" >> }

\* the entries claims.scopes is built from
ScopePool ==
    { << "s", "v", "c", ":", "p", "e", "r", "m" >>,
      << "s", "v", "c", ".", "p", "e", "r", "m" >>,
      << "s", "v", "c", ".", "*", ".", "p", "e", "r", "m" >>,
      << "s", "v", "c", ":", "*", ":", "p", "e", "r", "m" >>,
      << "s", "v", "c", ".", "e", "n", "g", ".", "p", "e", "r", "m" >>,
      << "p", "e", "r", "m" >>,
      << "*" >>,
      << "s", "v", "c" >>,
      << "a", "d", "m", ".", "r", "e", "a", "d" >>,
      << "r", "e", "a", "d", " ", "*", ".", "p", "e", "r", "m" >> }

\* the delimiter arguments of authorize
DelimiterArgs ==
    { None, Some(<< ":" >>), Some(<< "." >>), Some(<< "/" >>), Some(EMPTY) }

\* the permission arguments handed to the RBAC strategy
PermissionArgs ==
    { << "r", "e", "a", "d" >>,
      << "R", "e", "a", "d" >>,
      << "R", "E", "A", "D" >>,
      << "r", "E", "a", "D" >>,
      << "c", "r", "e", "a", "t", "e" >>,
      << "D", "e", "l", "e", "t", "e" >>,
      << "U", "P", "D", "A", "T", "E" >>,
      << "r", "e", "a", "d", "s" >>,
      << "r", "e", "a" >>,
      << "w", "r", "i", "t", "e" >> }
      \cup { EMPTY }

\* clearance and required levels around the ends of the u8 range
EdgeLevels == { 0, 1, 2, 254, 255 }

SomeUser == User(ENG, 3, << "Read" >>)

SomeClaims == Claims(<< << "s", "v", "c", ".", "p", "e", "r", "m" >> >>)

SomeResource == Resource(ENG, 3)

InitSBA ==
    /\ strategy_name = << "S", "B", "A" >>
    /\ \E scopes \in SeqsUpTo(ScopePool, MaxScopes),
          res \in { None, Some(Resource(ENG, 3)), Some(Resource(OPS, 0)) } :
            context = [ user |-> None, claims |-> Some(Claims(scopes)), resource |-> res ]
    /\ service \in Services
    /\ permission \in { PERM, READ }
    /\ delimiter \in DelimiterArgs

InitRBAC ==
    /\ strategy_name = << "R", "B", "A", "C" >>
    /\ \E perms \in SeqsUpTo(Permissions, MaxPerms),
          cl \in { None, Some(SomeClaims) },
          res \in { None, Some(SomeResource) } :
            context = [ user |-> Some(User(ENG, 3, perms)), claims |-> cl, resource |-> res ]
    /\ service \in Services
    /\ permission \in PermissionArgs
    /\ delimiter = None

InitABAC ==
    /\ strategy_name = << "A", "B", "A", "C" >>
    /\ \E ud \in { ENG, OPS }, uc \in EdgeLevels, rd \in { ENG, OPS }, rl \in EdgeLevels :
            context = [ user |-> Some(User(ud, uc, << >>)), claims |-> None,
                        resource |-> Some(Resource(rd, rl)) ]
    /\ service \in Services
    /\ permission \in { PERM, READ }
    /\ delimiter = None

\* every strategy name against every combination of present and absent fields
InitGuards ==
    /\ strategy_name \in StrategyNames
    /\ context \in [ user : { None, Some(SomeUser) },
                     claims : { None, Some(SomeClaims) },
                     resource : { None, Some(SomeResource), Some(Resource(OPS, 4)) } ]
    /\ service = SVC
    /\ permission \in { PERM, READ }
    /\ delimiter \in { None, Some(<< ":" >>) }

\* scope lists of empty and degenerate entries
MalformedScopes ==
    { << >>, << EMPTY >>, << SPACE >>, << STAR >>, << PERM >>,
      << << "." >> >>, << << "s", "v", "c", "." >> >>, << << ".", "p", "e", "r", "m" >> >> }

\* the ScopeBased strategy with empty service, permission, department and scopes
InitMalformed ==
    /\ strategy_name = << "S", "B", "A" >>
    /\ \E scopes \in MalformedScopes,
          res \in { None, Some(Resource(ENG, 3)), Some(Resource(EMPTY, 0)) } :
            context = [ user |-> None, claims |-> Some(Claims(scopes)), resource |-> res ]
    /\ service \in { EMPTY, SVC }
    /\ permission \in { EMPTY, PERM }
    /\ delimiter \in DelimiterArgs

Init ==
    /\ pc = "ready"
    /\ op = "authz"
    /\ authz = None
    /\ result = None
    /\ InitSBA \/ InitRBAC \/ InitABAC \/ InitGuards \/ InitMalformed
    /\ ScopeIdle
    /\ AuthnIdle

\* the ABAC strategy over the whole u8 range of clearance and required level
InitABACRange ==
    /\ pc = "ready"
    /\ op = "authz"
    /\ authz = None
    /\ result = None
    /\ strategy_name = << "A", "B", "A", "C" >>
    /\ \/ /\ \E ud \in { ENG, OPS }, uc \in U8, rd \in { ENG, OPS }, rl \in U8 :
                context = [ user |-> Some(User(ud, uc, << >>)), claims |-> None,
                            resource |-> Some(Resource(rd, rl)) ]
          /\ service = SVC
          /\ permission = READ
       \/ /\ \E ud \in { ENG, OPS }, uc \in EdgeLevels, rl \in EdgeLevels,
                cl \in { None, Some(SomeClaims) } :
                context = [ user |-> Some(User(ud, uc, << "Read" >>)), claims |-> cl,
                            resource |-> Some(Resource(ENG, rl)) ]
          /\ service \in Services
          /\ permission \in { PERM, READ, EMPTY }
    /\ delimiter = None
    /\ ScopeIdle
    /\ AuthnIdle

\* let authz = Authorization::new(strategy_name)
New ==
    /\ pc = "ready"
    /\ op = "authz"
    /\ authz' = Some(Authorization_new(strategy_name))
    /\ pc' = IF unwrap(authz').kind = "Ok" THEN "constructed" ELSE "failed"
    /\ UNCHANGED << op, user_token, required_token, scope_list, user_scope_str,
                    match_result, strategy_name, context, service, permission,
                    delimiter, result, users, history >>

\* authorize keeping its first decision in the Authorization value and
\* answering every later call with it
Authorize_memoized ==
    /\ pc = "constructed"
    /\ op = "authz"
    /\ LET self == unwrap(authz)
           answer == IF "memo" \in DOMAIN self THEN self.memo
                     ELSE authorize(self.strategy, context, service, permission, delimiter)
       IN  /\ result' = Some(answer)
           /\ authz' = Some([ kind |-> "Ok", strategy |-> self.strategy, memo |-> answer ])
    /\ pc' = "done"
    /\ UNCHANGED << op, user_token, required_token, scope_list, user_scope_str,
                    match_result, strategy_name, context, service,
                    permission, delimiter, users, history >>

\* let result = authz.authorize(&context, service, permission, delimiter)
Authorize ==
    /\ pc = "constructed"
    /\ op = "authz"
    /\ result' = Some(authorize(unwrap(authz).strategy, context, service, permission,
                                delimiter))
    /\ pc' = "done"
    /\ UNCHANGED << op, user_token, required_token, scope_list, user_scope_str,
                    match_result, strategy_name, authz, context, service,
                    permission, delimiter, users, history >>

Next == New \/ Authorize

\* the contexts of repeated calls: everything present, a user of another
\* department without permissions and claims without scopes, nothing present
CallContexts ==
    { [ user |-> Some(SomeUser), claims |-> Some(SomeClaims), resource |-> Some(SomeResource) ],
      [ user |-> Some(User(OPS, 1, << >>)), claims |-> Some(Claims(<< >>)), resource |-> None ],
      NoContext }

\* the call just returned, as it is kept in history
returned_call ==
    [ context |-> context, service |-> service, permission |-> permission,
      delimiter |-> delimiter, result |-> unwrap(result) ]

\* one Authorization value about to be constructed and then called repeatedly
InitCalls ==
    /\ pc = "ready"
    /\ op = "authz"
    /\ authz = None
    /\ result = None
    /\ strategy_name \in { << "A", "B", "A", "C" >>, << "r", "b", "a", "c" >>, << "S", "B", "A" >> }
    /\ context \in CallContexts
    /\ service = SVC
    /\ permission \in { PERM, READ }
    /\ delimiter \in { None, Some(<< ":" >>) }
    /\ ScopeIdle
    /\ AuthnIdle

\* the caller keeps the returned result and sets up the next call on the
\* same Authorization value
Ask ==
    /\ pc = "done"
    /\ op = "authz"
    /\ Len(history) + 1 < MaxCalls
    /\ history' = Append(history, returned_call)
    /\ context' \in CallContexts
    /\ service' = SVC
    /\ permission' \in { PERM, READ }
    /\ delimiter' \in { None, Some(<< ":" >>) }
    /\ result' = None
    /\ pc' = "constructed"
    /\ UNCHANGED << op, user_token, required_token, scope_list, user_scope_str,
                    match_result, strategy_name, authz, users >>

NextCalls == New \/ Authorize \/ Ask

SpecCalls == InitCalls /\ [][NextCalls]_vars

Spec == Init /\ [][Next]_vars

SpecABAC == InitABACRange /\ [][Next]_vars

\* the ScopeBased strategy with claims of one three-part scope token
\* service<d>segment<d>permission, for each of the matcher's delimiters and
\* "*" or a department in the middle segment, against resources of both
\* departments and no resource
InitHierarchy ==
    /\ pc = "ready"
    /\ op = "authz"
    /\ authz = None
    /\ result = None
    /\ strategy_name = << "S", "B", "A" >>
    /\ \E k \in 1..Len(Delimiters), svc \in Services, seg \in { STAR, ENG, OPS },
          res \in { None, Some(Resource(ENG, 3)), Some(Resource(OPS, 0)) } :
            /\ context = [ user |-> None,
                           claims |-> Some(Claims(<< svc \o << Delimiters[k] >> \o seg
                                                      \o << Delimiters[k] >> \o PERM >>)),
                           resource |-> res ]
            /\ delimiter \in { Some(<< Delimiters[k] >>) }
                              \cup (IF Delimiters[k] = "." THEN { None } ELSE { })
    /\ service \in Services
    /\ permission \in { PERM, READ }
    /\ ScopeIdle
    /\ AuthnIdle

SpecHierarchy == InitHierarchy /\ [][Next]_vars

\* the number of times a caller repeats a ScopeBased call with other values
\* in the fields of the context
MaxVariants == 1

\* the emails of the claims a caller presents
ClaimEmails == { << "c", "@", "x" >>, << "d", "@", "x" >> }

\* the required levels of the resources a caller presents
ResourceLevels == { 0, 3 }

\* the users a caller puts in the context next to the claims
ContextUsers == { None, Some(SomeUser) }

\* the scope lists of the claims a caller presents
VariantScopes ==
    { << >>,
      << << "s", "v", "c", ".", "p", "e", "r", "m" >> >>,
      << << "s", "v", "c", ".", "e", "n", "g", ".", "p", "e", "r", "m" >> >>,
      << << "a", "d", "m", ".", "r", "e", "a", "d" >>, << "r", "e", "a", "d" >> >> }

\* Claims { email, service, scopes }
ClaimsOf(email, svc, scopes) == [ email |-> email, service |-> svc, scopes |-> scopes ]

\* the contexts that differ from ctx at most in claims.email, claims.service,
\* user and resource.required_level
variants_of(ctx) ==
    { [ user |-> u,
        claims |-> Some(ClaimsOf(e, s, unwrap(ctx.claims).scopes)),
        resource |-> r ] :
        u \in ContextUsers, e \in ClaimEmails, s \in Services,
        r \in IF ctx.resource = None THEN { None }
              ELSE { Some(Resource(unwrap(ctx.resource).department, l)) :
                        l \in ResourceLevels } }

\* a ScopeBased Authorization about to be constructed and called with
\* claims and, possibly, a user and a resource
InitVariants ==
    /\ pc = "ready"
    /\ op = "authz"
    /\ authz = None
    /\ result = None
    /\ strategy_name = << "S", "B", "A" >>
    /\ \E u \in ContextUsers, e \in ClaimEmails, s \in Services, scopes \in VariantScopes,
          r \in { None } \cup { Some(Resource(d, l)) : d \in { ENG, OPS }, l \in ResourceLevels } :
            context = [ user |-> u, claims |-> Some(ClaimsOf(e, s, scopes)), resource |-> r ]
    /\ service \in Services
    /\ permission \in { PERM, READ }
    /\ delimiter \in { None, Some(<< ":" >>) }
    /\ ScopeIdle
    /\ AuthnIdle

\* the caller keeps the returned result and repeats the call with another
\* token service, token email, user or required level
AskVariant ==
    /\ pc = "done"
    /\ op = "authz"
    /\ Len(history) < MaxVariants
    /\ history' = Append(history, returned_call)
    /\ context' \in variants_of(context)
    /\ result' = None
    /\ pc' = "constructed"
    /\ UNCHANGED << op, user_token, required_token, scope_list, user_scope_str,
                    match_result, strategy_name, authz, service, permission,
                    delimiter, users >>

NextVariants == New \/ Authorize \/ AskVariant

SpecVariants == InitVariants /\ [][NextVariants]_vars

---------------------------------------------------------------------------
(* src/src/auth/auth_n.rs *)

UserNotFound == [ kind |-> "UserNotFound" ]

InvalidToken == [ kind |-> "InvalidToken" ]

EmailAlreadyRegistered == [ kind |-> "EmailAlreadyRegistered" ]

\* Ok(Some(user)) and Ok(None) of login
OkUser(opt) == [ kind |-> "Ok", value |-> opt ]

\* a User stored with the permission Read in its role
registered_user_with_role(email, password_hash) ==
    [ email |-> email,
      password_hash |-> password_hash,
      role |-> [ name |-> EMPTY, permissions |-> << "Read" >> ],
      department |-> EMPTY,
      clearance_level |-> 0 ]

\* the User that register stores
registered_user(email, password_hash) ==
    [ email |-> email,
      password_hash |-> password_hash,
      role |-> [ name |-> EMPTY, permissions |-> << >> ],
      department |-> EMPTY,
      clearance_level |-> 0 ]

\* HashMap::contains_key
contains_key(map, key) == key \in DOMAIN map

\* HashMap::insert dropping every other key
insert_alone(map, key, value) == [ k \in { key } |-> value ]

\* HashMap::insert
insert(map, key, value) ==
    [ k \in DOMAIN map \cup { key } |-> IF k = key THEN value ELSE map[k] ]

\* register inserting without looking the email up first
register_overwriting(map, email, password_hash) ==
    [ users |-> insert(map, email, registered_user(email, password_hash)), result |-> Ok ]

\* Authentication::register(email, password_hash): the map and the result
register(map, email, password_hash) ==
    IF contains_key(map, email)
    THEN [ users |-> map, result |-> EmailAlreadyRegistered ]
    ELSE [ users |-> insert(map, email, registered_user(email, password_hash)),
           result |-> Ok ]

\* login answering Ok(None) for an unknown email
login_or_none(map, email) ==
    IF contains_key(map, email) THEN OkUser(Some(map[email])) ELSE OkUser(None)

\* Authentication::login(email)
login(map, email) ==
    IF contains_key(map, email) THEN OkUser(Some(map[email])) ELSE UserNotFound

\* reset_password verifying the token before looking the user up
reset_password_token_first(map, email, token, new_password_hash, accepted) ==
    IF token \notin accepted THEN [ users |-> map, result |-> InvalidToken ]
    ELSE IF contains_key(map, email)
         THEN [ users |-> [ map EXCEPT ![email].password_hash = new_password_hash ],
                result |-> Ok ]
         ELSE [ users |-> map, result |-> UserNotFound ]

\* reset_password returning Ok without storing the new hash
reset_password_not_stored(map, email, token, new_password_hash, accepted) ==
    IF contains_key(map, email)
    THEN IF token \notin accepted THEN [ users |-> map, result |-> InvalidToken ]
         ELSE [ users |-> map, result |-> Ok ]
    ELSE [ users |-> map, result |-> UserNotFound ]

\* Authentication::reset_password(email, token, new_password_hash, verify_token):
\* the map and the result; verify_token is given by the set of tokens it accepts
reset_password(map, email, token, new_password_hash, accepted) ==
    IF contains_key(map, email)
    THEN IF token \notin accepted THEN [ users |-> map, result |-> InvalidToken ]
         ELSE [ users |-> [ map EXCEPT ![email].password_hash = new_password_hash ],
                result |-> Ok ]
    ELSE [ users |-> map, result |-> UserNotFound ]

---------------------------------------------------------------------------
(* Calls on one Authentication value.  Every call is kept in history with   *)
(* its arguments, its result and the user map before and after it.          *)

Emails == { << "a", "@", "x" >>, << "b", "@", "x" >> }

Hashes == { << "o", "l", "d" >>, << "n", "e", "w" >> }

VALID == << "v", "a", "l", "i", "d" >>

Tokens == { VALID, << "b", "a", "d" >> }

\* the verify_token closures: |t| t == "valid"
Verifiers == { { VALID } }

authn_call(name, email, password_hash, token, accepted, res, after) ==
    [ op |-> name, email |-> email, password_hash |-> password_hash, token |-> token,
      accepted |-> accepted, result |-> res, before |-> users, after |-> after ]

\* let auth = Authentication::new()
InitAuthn ==
    /\ pc = "idle"
    /\ op = "authn"
    /\ users = empty_map
    /\ history = << >>
    /\ ScopeIdle
    /\ AuthzIdle

\* auth.register(email, password_hash)
Register ==
    /\ op = "authn"
    /\ Len(history) < MaxAuthnCalls
    /\ \E email \in Emails, password_hash \in Hashes :
         LET out == register(users, email, password_hash)
         IN  /\ users' = out.users
             /\ result' = Some(out.result)
             /\ history' = Append(history,
                    authn_call("register", email, password_hash, EMPTY, { }, out.result,
                               out.users))
    /\ UNCHANGED << pc, op, user_token, required_token, scope_list, user_scope_str,
                    match_result, strategy_name, authz, context, service,
                    permission, delimiter >>

\* auth.login(email)
Login ==
    /\ op = "authn"
    /\ Len(history) < MaxAuthnCalls
    /\ \E email \in Emails :
         LET res == login(users, email)
         IN  /\ result' = Some(res)
             /\ history' = Append(history,
                    authn_call("login", email, EMPTY, EMPTY, { }, res, users))
    /\ UNCHANGED << pc, op, user_token, required_token, scope_list, user_scope_str,
                    match_result, strategy_name, authz, context, service,
                    permission, delimiter, users >>

\* auth.reset_password(email, token, new_password_hash, verify_token)
ResetPassword ==
    /\ op = "authn"
    /\ Len(history) < MaxAuthnCalls
    /\ \E email \in Emails, token \in Tokens, new_hash \in Hashes, accepted \in Verifiers :
         LET out == reset_password(users, email, token, new_hash, accepted)
         IN  /\ users' = out.users
             /\ result' = Some(out.result)
             /\ history' = Append(history,
                    authn_call("reset_password", email, new_hash, token, accepted,
                               out.result, out.users))
    /\ UNCHANGED << pc, op, user_token, required_token, scope_list, user_scope_str,
                    match_result, strategy_name, authz, context, service,
                    permission, delimiter >>

\* the caller pushes a permission onto the user that login just returned:
\* user.role.permissions.push(Permission::Create)
PushPermission ==
    /\ op = "authn"
    /\ 0 < Len(history)
    /\ Len(history) < MaxAuthnCalls
    /\ history[Len(history)].op = "login"
    /\ unwrap(result).kind = "Ok"
    /\ LET user == unwrap(unwrap(result).value)
           changed == [ user EXCEPT !.role.permissions = Append(@, "Create") ]
       IN  /\ result' = Some(OkUser(Some(changed)))
           /\ history' = Append(history,
                  authn_call("push", user.email, EMPTY, EMPTY, { }, OkUser(Some(changed)),
                             users))
    /\ UNCHANGED << pc, op, user_token, required_token, scope_list, user_scope_str,
                    match_result, strategy_name, authz, context, service,
                    permission, delimiter, users >>

NextAuthn == Register \/ Login \/ ResetPassword \/ PushPermission

SpecAuthn == InitAuthn /\ [][NextAuthn]_vars

\* the permissions a caller asks the RoleBased strategy about for a user
\* that login returned
LoginPermissions ==
    { << "r", "e", "a", "d" >>, << "C", "r", "e", "a", "t", "e" >>, EMPTY }

\* the caller hands the user that login returned, changed or not, to the
\* RoleBased strategy:
\* Authorization::new("RBAC")?.authorize(&context, service, permission, None)
AuthorizeUser ==
    /\ op = "authn"
    /\ 0 < Len(history)
    /\ Len(history) < MaxAuthnCalls
    /\ history[Len(history)].op \in { "login", "push" }
    /\ unwrap(result).kind = "Ok"
    /\ strategy_name' = << "R", "B", "A", "C" >>
    /\ authz' = Some(Authorization_new(strategy_name'))
    /\ context' = [ user |-> unwrap(result).value, claims |-> None, resource |-> None ]
    /\ service' \in Services
    /\ permission' \in LoginPermissions
    /\ delimiter' = None
    /\ result' = Some(authorize(unwrap(authz').strategy, context', service', permission',
                                delimiter'))
    /\ history' = Append(history,
           [ op |-> "authorize", email |-> unwrap(unwrap(result).value).email,
             service |-> service', permission |-> permission',
             result |-> unwrap(result'), before |-> users, after |-> users ])
    /\ UNCHANGED << pc, op, user_token, required_token, scope_list, user_scope_str,
                    match_result, users >>

NextLogin == Register \/ Login \/ ResetPassword \/ PushPermission \/ AuthorizeUser

SpecLogin == InitAuthn /\ [][NextLogin]_vars

---------------------------------------------------------------------------
(* Notions the properties below are stated in *)

\* str::split(delim): every part of token between occurrences of delim
RECURSIVE parts(_, _)
parts(token, delim) ==
    LET i == find(token, delim, 1)
    IN  IF i = 0 THEN << token >>
        ELSE << SubSeq(token, 1, i - 1) >> \o parts(SubSeq(token, i + 1, Len(token)), delim)

\* delim occurs in token and no other delimiter does
sole_delimiter(token, delim) ==
    /\ contains(token, delim)
    /\ \A k \in 1..Len(Delimiters) : contains(token, Delimiters[k]) => Delimiters[k] = delim

\* token contains none of the delimiters
bare(token) == \A k \in 1..Len(Delimiters) : ~contains(token, Delimiters[k])

\* every part of the candidate is "*" or equals the required part
segments_match(cand, req) ==
    \A i \in 1..Len(cand) : cand[i] = STAR \/ cand[i] = req[i]

matches_returned == pc = "done" /\ op = "matches"

awm_returned == pc = "done" /\ op = "awm"

authorize_returned(strategy) ==
    pc = "done" /\ op = "authz" /\ unwrap(authz).strategy = strategy

\* C1: when candidate and required token split on the one delimiter they use
\* into the same number N >= 2 of parts, matches is true exactly when every
\* candidate part is "*" or equals the required part, for every N
C1_SegmentWildcards ==
    matches_returned =>
        \A k \in 1..Len(Delimiters) :
            LET d == Delimiters[k]
                cand == parts(user_token, d)
                req == parts(required_token, d)
            IN  (/\ sole_delimiter(user_token, d)
                 /\ sole_delimiter(required_token, d)
                 /\ Len(cand) = Len(req))
                    => unwrap(match_result) = segments_match(cand, req)

\* C2: matches is false whenever candidate and required token, split on the
\* delimiter they share, have different numbers of parts
C2_ArityMismatch ==
    matches_returned =>
        \A k \in 1..Len(Delimiters) :
            LET d == Delimiters[k]
            IN  (/\ sole_delimiter(user_token, d)
                 /\ sole_delimiter(required_token, d)
                 /\ Len(parts(user_token, d)) # Len(parts(required_token, d)))
                    => unwrap(match_result) = FALSE

\* C3: a candidate that contains no delimiter and is not "*" never matches
\* a required token it is not equal to
C3_BareCandidate ==
    matches_returned =>
        ((bare(user_token) /\ user_token # STAR /\ user_token # required_token)
            => unwrap(match_result) = FALSE)

\* the delimiter a ScopeBased call works with: the one supplied, "." otherwise
delimiter_in_use == IF delimiter = None THEN << "." >> ELSE unwrap(delimiter)

\* the department a ScopeBased call works with: the resource's, "*" when absent
department_in_use ==
    IF context.resource = None THEN STAR ELSE unwrap(context.resource).department

tier1 == service \o delimiter_in_use \o department_in_use \o delimiter_in_use \o permission

tier2 == service \o delimiter_in_use \o permission

tier3 == permission

\* the whitespace-separated tokens of the claims' scopes joined by one space
claimed_tokens == parse_scope_string(join(unwrap(context.claims).scopes, SPACE))

some_token_matches(required) ==
    \E i \in 1..Len(claimed_tokens) : matches(claimed_tokens[i], required)

\* C4: ScopeBased authorize allows exactly when some whitespace-separated
\* token of the claims' scopes matches one of the three required tokens
\* service<d>department<d>permission, service<d>permission, permission
\* (d the supplied delimiter or ".", department "*" without a resource),
\* and returns AccessDenied otherwise
C4_ScopeDecision ==
    (authorize_returned("SBA") /\ is_some(context.claims)) =>
        unwrap(result).kind =
            IF some_token_matches(tier1) \/ some_token_matches(tier2)
                  \/ some_token_matches(tier3)
            THEN "Ok" ELSE "AccessDenied"

\* a ScopeBased call without resource and delimiter that only tier 1 allows
C4_Witness ==
    /\ authorize_returned("SBA")
    /\ context.resource = None
    /\ delimiter = None
    /\ unwrap(context.claims).scopes = << << "s", "v", "c", ".", "*", ".", "p", "e", "r", "m" >> >>
    /\ service = SVC
    /\ permission = PERM
    /\ some_token_matches(tier1)
    /\ ~some_token_matches(tier2)
    /\ ~some_token_matches(tier3)
    /\ unwrap(result) = Ok

\* the ScopeBased call of the tiered fallback example: scopes ["svc:perm"],
\* service "svc", permission "perm", no resource
tiered_fallback_call ==
    /\ authorize_returned("SBA")
    /\ is_some(context.claims)
    /\ unwrap(context.claims).scopes = << << "s", "v", "c", ":", "p", "e", "r", "m" >> >>
    /\ service = SVC
    /\ permission = PERM
    /\ context.resource = None

\* C5 as stated: the tiered fallback example is allowed whatever the
\* delimiter argument is, also when it is omitted
C5_AnyDelimiter == tiered_fallback_call => unwrap(result) = Ok

\* C5: the tiered fallback example is allowed, through the tier-2 required
\* token and not through tier 1 or tier 3, exactly when the delimiter argument
\* is ":"; with any other delimiter argument, and with the default "." when it
\* is omitted, it is denied with AccessDenied
C5_ColonDelimiterOnly ==
    tiered_fallback_call =>
        IF delimiter = Some(<< ":" >>)
        THEN /\ unwrap(result) = Ok
             /\ some_token_matches(tier2)
             /\ ~some_token_matches(tier1)
             /\ ~some_token_matches(tier3)
        ELSE unwrap(result).kind = "AccessDenied"

C5_Witness ==
    /\ tiered_fallback_call
    /\ delimiter = Some(<< ":" >>)
    /\ unwrap(result) = Ok

\* the lower-case name of a Permission
lower_name(perm) ==
    CASE perm = "Create" -> << "c", "r", "e", "a", "t", "e" >>
      [] perm = "Read"   -> << "r", "e", "a", "d" >>
      [] perm = "Update" -> << "u", "p", "d", "a", "t", "e" >>
      [] perm = "Delete" -> << "d", "e", "l", "e", "t", "e" >>

ascii_lower(str) == [ i \in 1..Len(str) |-> char_to_ascii_lowercase(str[i]) ]

\* C6: with the user present, RoleBased authorize allows exactly when the
\* user's role holds a Permission whose name equals the permission argument
\* ignoring ASCII case, and denies with AccessDenied otherwise, whatever the
\* service, the claims and the resource are
C6_RoleDecision ==
    (authorize_returned("RBAC") /\ is_some(context.user)) =>
        LET held == unwrap(context.user).role.permissions
        IN  unwrap(result).kind =
                IF \E i \in 1..Len(held) : lower_name(held[i]) = ascii_lower(permission)
                THEN "Ok" ELSE "AccessDenied"

\* a RoleBased call allowed through a permission written in another case
C6_Witness ==
    /\ authorize_returned("RBAC")
    /\ unwrap(context.user).role.permissions = << "Create", "Read" >>
    /\ permission = << "r", "E", "a", "D" >>
    /\ service = ADM
    /\ is_some(context.claims)
    /\ unwrap(result) = Ok

\* C7: with user and resource present, AttributeBased authorize allows if
\* and only if the departments are equal and the user's clearance is at
\* least the required level, and denies with AccessDenied otherwise
C7_AttributeDecision ==
    (authorize_returned("ABAC") /\ is_some(context.user) /\ is_some(context.resource)) =>
        LET u == unwrap(context.user)
            r == unwrap(context.resource)
        IN  unwrap(result).kind =
                IF u.department = r.department /\ ~(u.clearance_level < r.required_level)
                THEN "Ok" ELSE "AccessDenied"

\* an AttributeBased call allowed with the clearance equal to the required level
C7_Witness ==
    /\ authorize_returned("ABAC")
    /\ unwrap(context.user).department = unwrap(context.resource).department
    /\ unwrap(context.user).clearance_level = 200
    /\ unwrap(context.resource).required_level = 200
    /\ unwrap(result) = Ok

\* C8: the missing-field guards: AttributeBased returns MissingUser without
\* a user (with or without a resource) and MissingResource with a user and no
\* resource; RoleBased returns MissingUser without a user; ScopeBased returns
\* MissingClaims without claims and never MissingResource or MissingUser
C8_MissingFieldGuards ==
    /\ authorize_returned("ABAC") =>
          /\ context.user = None => unwrap(result) = MissingUser
          /\ (context.user # None /\ context.resource = None)
                => unwrap(result) = MissingResource
          /\ (context.user # None /\ context.resource # None)
                => unwrap(result).kind \in { "Ok", "AccessDenied" }
    /\ authorize_returned("RBAC") =>
          /\ context.user = None => unwrap(result) = MissingUser
          /\ context.user # None => unwrap(result).kind \in { "Ok", "AccessDenied" }
    /\ authorize_returned("SBA") =>
          /\ context.claims = None => unwrap(result) = MissingClaims
          /\ context.claims # None => unwrap(result).kind \in { "Ok", "AccessDenied" }

\* an AttributeBased call with neither user nor resource
C8_Witness ==
    /\ authorize_returned("ABAC")
    /\ context.user = None
    /\ context.resource = None
    /\ unwrap(result) = MissingUser

\* the character a letter is compared as when case is ignored
case_fold(c) == IF c = LONG_S THEN "s" ELSE char_to_ascii_lowercase(c)

equal_ignoring_case(a, b) ==
    /\ Len(a) = Len(b)
    /\ \A i \in 1..Len(a) : case_fold(a[i]) = case_fold(b[i])

\* the strategy whose name is name ignoring case, "" when there is none
named_strategy(name) ==
    IF equal_ignoring_case(name, << "A", "B", "A", "C" >>) THEN "ABAC"
    ELSE IF equal_ignoring_case(name, << "R", "B", "A", "C" >>) THEN "RBAC"
    ELSE IF equal_ignoring_case(name, << "S", "B", "A" >>) THEN "SBA"
    ELSE ""

\* C9: Authorization::new accepts a name exactly when it equals "ABAC",
\* "RBAC" or "SBA" ignoring case, every case variant selects that strategy
\* and authorize then returns what that strategy returns, and every other
\* name fails with InvalidStrategy carrying the name as it was passed
C9_StrategyNames ==
    (op = "authz" /\ pc # "ready") =>
        /\ named_strategy(strategy_name) # "" =>
              /\ pc # "failed"
              /\ unwrap(authz) = [ kind |-> "Ok", strategy |-> named_strategy(strategy_name) ]
              /\ pc = "done" =>
                    unwrap(result) = authorize(named_strategy(strategy_name), context,
                                               service, permission, delimiter)
        /\ named_strategy(strategy_name) = "" =>
              /\ pc = "failed"
              /\ unwrap(authz).kind = "InvalidStrategy"
              /\ unwrap(authz).name = strategy_name
              /\ result = None

\* a call allowed by an Authorization constructed from a mixed-case name
C9_Witness ==
    /\ pc = "done"
    /\ strategy_name = << "R", "b", "a", "c" >>
    /\ unwrap(authz).strategy = "RBAC"
    /\ unwrap(result) = Ok

\* C10: authorize_with_matcher is true exactly when at least one of the
\* tokens laid out in the scope string matches the required token, whatever
\* their order and the whitespace around them; tokens differing from the
\* required token in case only do not match; no token yields false
C10_AnyTokenMatches ==
    awm_returned =>
        /\ unwrap(match_result) =
              \E i \in 1..Len(scope_list) : matches(scope_list[i], required_token)
        /\ scope_list = << >> => unwrap(match_result) = FALSE
        /\ (scope_list = << << "A", ":", "b" >> >> /\ required_token = << "a", ":", "b" >>)
              => unwrap(match_result) = FALSE

\* a scope string of two tokens, the second one matching, spaced irregularly
C10_Witness ==
    /\ awm_returned
    /\ scope_list = << << "b" >>, << "a", ":", "*" >> >>
    /\ user_scope_str = << "\t", "b", "\n", " ", "a", ":", "*" >>
    /\ required_token = << "a", ":", "a" >>
    /\ unwrap(match_result) = TRUE

\* C11: the candidate token "*" matches every required token, with or
\* without a delimiter in it, so authorize_with_matcher("*", r) is true for
\* every r
C11_GlobalWildcard ==
    /\ (matches_returned /\ user_token = STAR) => unwrap(match_result) = TRUE
    /\ (awm_returned /\ user_scope_str = STAR) => unwrap(match_result) = TRUE

\* the candidate "*" against a required token of three delimited parts
C11_Witness ==
    /\ matches_returned
    /\ user_token = STAR
    /\ required_token = << "a", "/", "b", "/", "a" >>
    /\ unwrap(match_result) = TRUE

\* C12: under ScopeBased, a claims scope token equal to the bare permission
\* string authorizes that permission for every service argument and every
\* resource, present or absent
C12_BarePermissionToken ==
    (/\ authorize_returned("SBA")
     /\ is_some(context.claims)
     /\ \E i \in 1..Len(claimed_tokens) : claimed_tokens[i] = permission)
        => unwrap(result) = Ok

\* the bare permission token allowing a service and a department it does not name
C12_Witness ==
    /\ authorize_returned("SBA")
    /\ unwrap(context.claims).scopes = << PERM >>
    /\ permission = PERM
    /\ service = ADM
    /\ context.resource = Some(Resource(OPS, 0))
    /\ delimiter = Some(<< "/" >>)
    /\ unwrap(result) = Ok

\* C13: an AccessDenied returned by authorize carries the identity (email)
\* of the decision subject - the context user for RoleBased and
\* AttributeBased, the claims for ScopeBased - and the service and permission
\* arguments of the call; it is never returned when a required field is missing
C13_AccessDeniedFields ==
    (pc = "done" /\ op = "authz" /\ unwrap(result).kind = "AccessDenied") =>
        LET denied == unwrap(result)
            strategy == unwrap(authz).strategy
        IN  /\ denied.service = service
            /\ denied.permission = permission
            /\ strategy = "RBAC" =>
                  /\ context.user # None
                  /\ denied.user = unwrap(context.user).email
            /\ strategy = "ABAC" =>
                  /\ context.user # None
                  /\ context.resource # None
                  /\ denied.user = unwrap(context.user).email
            /\ strategy = "SBA" =>
                  /\ context.claims # None
                  /\ denied.user = unwrap(context.claims).email

\* a ScopeBased denial in a context that holds a user as well as claims
C13_Witness ==
    /\ authorize_returned("SBA")
    /\ context.user = Some(SomeUser)
    /\ context.claims = Some(SomeClaims)
    /\ service = SVC
    /\ permission = READ
    /\ unwrap(result) = [ kind |-> "AccessDenied", user |-> SomeClaims.email,
                          service |-> SVC, permission |-> READ ]

\* the ScopeBased call returned with claims in the context
scope_call_returned == authorize_returned("SBA") /\ is_some(context.claims)

\* C15 as stated: under ScopeBased an empty scope list is denied, and an
\* empty service or permission string is denied as well
C15_EmptyStringsDenied ==
    scope_call_returned =>
        /\ unwrap(context.claims).scopes = << >> => unwrap(result).kind = "AccessDenied"
        /\ (service = EMPTY \/ permission = EMPTY) => unwrap(result).kind = "AccessDenied"

\* C15: malformed-but-typed input never aborts: under ScopeBased the call
\* returns Ok or AccessDenied; claims whose scope list is empty (or holds no
\* token) yield AccessDenied for every service, permission, delimiter and
\* resource; an empty service or permission string is decided like any other
\* string, so it is denied unless some scope token matches one of the three
\* required tokens built from it
C15_EmptyInputDecided ==
    scope_call_returned =>
        /\ unwrap(result).kind \in { "Ok", "AccessDenied" }
        /\ claimed_tokens = << >> => unwrap(result).kind = "AccessDenied"
        /\ (service = EMPTY \/ permission = EMPTY) =>
              (unwrap(result).kind = "AccessDenied"
                  <=> \A i \in 1..Len(claimed_tokens) :
                        /\ ~matches(claimed_tokens[i], tier1)
                        /\ ~matches(claimed_tokens[i], tier2)
                        /\ ~matches(claimed_tokens[i], tier3))

\* an empty scope list with an empty service and an empty permission
C15_Witness ==
    /\ scope_call_returned
    /\ unwrap(context.claims).scopes = << >>
    /\ service = EMPTY
    /\ permission = EMPTY
    /\ unwrap(result).kind = "AccessDenied"

\* the arguments of a call kept in history are those of the current call
same_arguments(call) ==
    /\ call.context = context
    /\ call.service = service
    /\ call.permission = permission
    /\ call.delimiter = delimiter

\* the strategy is the one chosen at construction, and a call returns what
\* every earlier call with the same arguments returned
C14_Invariant ==
    (op = "authz" /\ pc \in { "constructed", "done" }) =>
        /\ unwrap(authz) = [ kind |-> "Ok", strategy |-> named_strategy(strategy_name) ]
        /\ pc = "done" =>
              \A i \in 1..Len(history) :
                  same_arguments(history[i]) => history[i].result = unwrap(result)

\* a step in which authorize returns changes neither the Authorization value
\* nor the context, claims and resource handed to it
C14_Frame ==
    (op = "authz" /\ pc = "constructed" /\ pc' = "done") =>
        /\ authz' = authz
        /\ context' = context
        /\ << service', permission', delimiter' >> = << service, permission, delimiter >>

\* C14: authorize is stateless: after any sequence of calls on one
\* Authorization value its strategy is the one chosen at construction, the
\* context passed in is unchanged, and two calls with identical arguments
\* return identical results whatever calls ran in between
C14_Stateless == []C14_Invariant /\ [][C14_Frame]_vars

\* a third call repeating the first one after a different second call
C14_Witness ==
    /\ op = "authz"
    /\ pc = "done"
    /\ Len(history) = 2
    /\ same_arguments(history[1])
    /\ ~same_arguments(history[2])
    /\ history[2].result # history[1].result
    /\ history[1].result = Ok
    /\ unwrap(result) = Ok

\* the calls made on the Authentication value, and those of one operation
authn_calls == IF op = "authn" THEN 1..Len(history) ELSE { }

calls_of(name) == { i \in authn_calls : history[i].op = name }

\* every record of map before is the same record in map after, save for key
same_but(before, after, key) ==
    \A k \in DOMAIN before \ { key } : k \in DOMAIN after /\ after[k] = before[k]

\* the user map is the one the last call left
map_is_current == authn_calls # { } => users = history[Len(history)].after

\* C16: register(email, hash) of an email that is not a key adds exactly one
\* record for it and returns Ok; of a registered email it returns
\* EmailAlreadyRegistered and leaves the whole map unchanged
C16_Register ==
    /\ map_is_current
    /\ \A i \in calls_of("register") :
          LET c == history[i]
          IN  IF c.email \in DOMAIN c.before
              THEN /\ c.result = EmailAlreadyRegistered
                   /\ c.after = c.before
              ELSE /\ c.result = Ok
                   /\ DOMAIN c.after = DOMAIN c.before \cup { c.email }
                   /\ same_but(c.before, c.after, c.email)
                   /\ c.after[c.email].email = c.email
                   /\ c.after[c.email].password_hash = c.password_hash

\* a second register of an email offering another hash than the stored one
C16_Witness ==
    /\ Len(history) = 2
    /\ history[1].op = "register"
    /\ history[2].op = "register"
    /\ history[2].email = history[1].email
    /\ history[2].password_hash # history[1].password_hash
    /\ history[2].result = EmailAlreadyRegistered
    /\ users[history[1].email].password_hash = history[1].password_hash

\* C17: reset_password of an unregistered email returns UserNotFound whether
\* or not the token verifies; of a registered email with a token that fails
\* verification it returns InvalidToken; both leave the map unchanged, and a
\* following login still returns the old password hash
C17_ResetErrors ==
    \A i \in calls_of("reset_password") :
        LET c == history[i]
        IN  /\ c.email \notin DOMAIN c.before =>
                  /\ c.result = UserNotFound
                  /\ c.after = c.before
            /\ (c.email \in DOMAIN c.before /\ c.token \notin c.accepted) =>
                  /\ c.result = InvalidToken
                  /\ c.after = c.before
                  /\ (i + 1 \in calls_of("login") /\ history[i + 1].email = c.email) =>
                        /\ history[i + 1].result.kind = "Ok"
                        /\ unwrap(history[i + 1].result.value).password_hash
                              = c.before[c.email].password_hash

\* register, a reset refused for its token, and a login returning the old hash
C17_Witness ==
    /\ Len(history) = 3
    /\ history[1].op = "register"
    /\ history[2].op = "reset_password"
    /\ history[2].email = history[1].email
    /\ history[2].password_hash # history[1].password_hash
    /\ history[2].result = InvalidToken
    /\ history[3].op = "login"
    /\ history[3].email = history[1].email
    /\ unwrap(history[3].result.value).password_hash = history[1].password_hash

\* the resets of email that succeeded strictly between calls i and j
resets_between(email, i, j) ==
    { k \in calls_of("reset_password") :
        i < k /\ k < j /\ history[k].email = email /\ history[k].result = Ok }

\* C18: reset_password of a registered email with a token that verifies
\* returns Ok and changes only that user's password hash; every later
\* login of the email returns the new hash until the next successful reset
C18_ResetSuccess ==
    \A i \in calls_of("reset_password") :
        LET c == history[i]
        IN  (c.email \in DOMAIN c.before /\ c.token \in c.accepted) =>
                /\ c.result = Ok
                /\ DOMAIN c.after = DOMAIN c.before
                /\ same_but(c.before, c.after, c.email)
                /\ c.after[c.email] =
                      [ c.before[c.email] EXCEPT !.password_hash = c.password_hash ]
                /\ \A j \in calls_of("login") :
                      (i < j /\ history[j].email = c.email
                             /\ resets_between(c.email, i, j) = { }) =>
                          /\ history[j].result.kind = "Ok"
                          /\ unwrap(history[j].result.value).password_hash = c.password_hash

\* register, a successful reset to another hash, and a login returning it
C18_Witness ==
    /\ Len(history) = 3
    /\ history[1].op = "register"
    /\ history[2].op = "reset_password"
    /\ history[2].email = history[1].email
    /\ history[2].password_hash # history[1].password_hash
    /\ history[2].result = Ok
    /\ history[3].op = "login"
    /\ history[3].email = history[1].email
    /\ unwrap(history[3].result.value).password_hash = history[2].password_hash

\* C19: login(email) returns a copy of the stored record when the email is
\* registered and UserNotFound otherwise, never Ok(None), and never changes
\* the user map; a change made to the returned copy leaves the stored record
\* as it was
C19_Login ==
    /\ \A i \in calls_of("login") :
          LET c == history[i]
          IN  /\ c.after = c.before
              /\ c.result # OkUser(None)
              /\ IF c.email \in DOMAIN c.before
                 THEN c.result = OkUser(Some(c.before[c.email]))
                 ELSE c.result = UserNotFound
    /\ \A i \in calls_of("push") :
          LET c == history[i]
          IN  /\ c.after = c.before
              /\ c.after[c.email] = unwrap(history[i - 1].result.value)
              /\ c.after[c.email] # unwrap(c.result.value)

\* a login of a registered email whose returned copy was changed afterwards
C19_Witness ==
    /\ Len(history) = 3
    /\ history[2].op = "login"
    /\ history[3].op = "push"
    /\ unwrap(unwrap(result).value).role.permissions = << "Create" >>
    /\ users[history[2].email].role.permissions = << >>

\* the first delimiter, in the matcher's order, that occurs in either token
\* is the k-th one
first_delimiter_is(k) ==
    /\ contains(user_token, Delimiters[k]) \/ contains(required_token, Delimiters[k])
    /\ \A j \in 1..(k - 1) :
          ~contains(user_token, Delimiters[j]) /\ ~contains(required_token, Delimiters[j])

\* the two-part comparison of the tokens cut at their first delimiter d
two_part_result(d) ==
    LET u == split(user_token, d)
        r == split(required_token, d)
    IN  (u[1] = STAR \/ u[1] = r[1]) /\ (u[2] = STAR \/ u[2] = r[2])

\* matches returns the result of the first delimiter that occurs in either token
C20_FirstDelimiterResult ==
    matches_returned =>
        \A k \in 1..Len(Delimiters) :
            first_delimiter_is(k) => unwrap(match_result) = two_part_result(Delimiters[k])

\* two-part tokens on one delimiter match part by part, for each delimiter
C20_TwoPartEachDelimiter ==
    matches_returned =>
        \A k \in 1..Len(Delimiters) :
            LET d == Delimiters[k]
                cand == parts(user_token, d)
                req == parts(required_token, d)
            IN  (/\ sole_delimiter(user_token, d)
                 /\ sole_delimiter(required_token, d)
                 /\ Len(cand) = 2
                 /\ Len(req) = 2)
                    => unwrap(match_result) = segments_match(cand, req)

\* a candidate and a required token that use different delimiters do not match
C20_DifferentDelimiters ==
    matches_returned =>
        \A k, j \in 1..Len(Delimiters) :
            (/\ k # j
             /\ sole_delimiter(user_token, Delimiters[k])
             /\ sole_delimiter(required_token, Delimiters[j]))
                => unwrap(match_result) = FALSE

\* C20: matches decides with the first delimiter, in the order ":", ".",
\* "@", "/", that occurs in either token and returns that delimiter's result;
\* the same two-part matching holds for each of the four delimiters; a
\* candidate and a required token that use different delimiters do not match
C20_DelimiterOrder ==
    /\ C20_FirstDelimiterResult
    /\ C20_TwoPartEachDelimiter
    /\ C20_DifferentDelimiters

\* the three-part scope token of the call's service and permission with seg
\* in the resource segment
hierarchy_token(seg) ==
    service \o delimiter_in_use \o seg \o delimiter_in_use \o permission

\* a ScopeBased call that returned, made with one of the matcher's
\* delimiters on a resource with a department
hierarchy_call ==
    /\ authorize_returned("SBA")
    /\ is_some(context.claims)
    /\ is_some(context.resource)
    /\ \E k \in 1..Len(Delimiters) : delimiter_in_use = << Delimiters[k] >>

\* the claims hold token among their whitespace-separated scope tokens
claims_hold(token) == \E i \in 1..Len(claimed_tokens) : claimed_tokens[i] = token

\* claims holding service<d>department<d>permission are allowed on a resource
\* of that department, and claims holding nothing else are denied on a
\* resource of another department
C21_DepartmentSegment ==
    hierarchy_call =>
        \A dept \in { ENG, OPS } :
            /\ (claims_hold(hierarchy_token(dept))
                    /\ unwrap(context.resource).department = dept)
                 => unwrap(result) = Ok
            /\ (claimed_tokens = << hierarchy_token(dept) >>
                    /\ unwrap(context.resource).department # dept)
                 => unwrap(result).kind = "AccessDenied"

\* claims holding service<d>*<d>permission are allowed on a resource of
\* every department
C21_WildcardSegment ==
    (hierarchy_call /\ claims_hold(hierarchy_token(STAR))) => unwrap(result) = Ok

\* C21: under ScopeBased with a delimiter d of ":", ".", "@", "/", claims
\* holding service<d>*<d>permission authorize (service, permission) on a
\* resource of every department, and claims holding
\* service<d>department<d>permission authorize it on a resource of exactly
\* that department
C21_HierarchicalScopes ==
    /\ C21_WildcardSegment
    /\ C21_DepartmentSegment

\* the department a ScopeBased call's context stands for: the resource's,
\* none when the context has no resource
department_of(ctx) ==
    IF ctx.resource = None THEN None ELSE Some(unwrap(ctx.resource).department)

\* the two calls agree on everything but claims.service, claims.email,
\* context.user and resource.required_level
differ_only_in_ignored_fields(a, b) ==
    /\ is_some(a.context.claims)
    /\ is_some(b.context.claims)
    /\ unwrap(a.context.claims).scopes = unwrap(b.context.claims).scopes
    /\ department_of(a.context) = department_of(b.context)
    /\ a.service = b.service
    /\ a.permission = b.permission
    /\ a.delimiter = b.delimiter

\* C22: two ScopeBased calls that differ only in claims.service,
\* claims.email, context.user or resource.required_level reach the same
\* allow/deny decision
C22_IgnoredFields ==
    authorize_returned("SBA") =>
        \A i \in 1..Len(history) :
            differ_only_in_ignored_fields(history[i], returned_call)
                => history[i].result.kind = unwrap(result).kind

\* two allowed ScopeBased calls on scopes ["svc.perm"] for service "svc",
\* the first with claims of service "svc", the second with claims of service
\* "adm", another email, another user and another required level
C22_Witness ==
    /\ authorize_returned("SBA")
    /\ Len(history) = 1
    /\ differ_only_in_ignored_fields(history[1], returned_call)
    /\ service = SVC
    /\ unwrap(history[1].context.claims).service = SVC
    /\ unwrap(context.claims).service = ADM
    /\ unwrap(history[1].context.claims).email # unwrap(context.claims).email
    /\ history[1].context.user # context.user
    /\ is_some(context.resource)
    /\ unwrap(history[1].context.resource).required_level
            # unwrap(context.resource).required_level
    /\ history[1].result = Ok
    /\ unwrap(result) = Ok

\* the user has no permissions, no department and no clearance
without_role(user) ==
    /\ user.role.permissions = << >>
    /\ user.department = EMPTY
    /\ user.clearance_level = 0

\* every stored user is without role, department and clearance
C23_StoredUsers ==
    op = "authn" => \A email \in DOMAIN users : without_role(users[email])

\* RoleBased authorize denies the user that login returned when the caller
\* has not changed it
C23_LoginDenied ==
    \A i \in calls_of("authorize") :
        history[i - 1].op = "login"
            => history[i].result.kind = "AccessDenied"

\* C23: after any sequence of register, login and reset_password calls every
\* stored user has no permissions, an empty department and clearance level
\* 0, and RoleBased authorize denies a user obtained from login with
\* AccessDenied for every permission and service until the caller assigns a
\* role itself
C23_RegisteredWithoutRole ==
    /\ C23_StoredUsers
    /\ C23_LoginDenied

\* a registered user whose password was reset logs in and is denied by the
\* RoleBased strategy
C23_Witness ==
    /\ Len(history) = 4
    /\ history[1].op = "register"
    /\ history[2].op = "reset_password"
    /\ history[2].result = Ok
    /\ history[3].op = "login"
    /\ history[4].op = "authorize"
    /\ unwrap(result).kind = "AccessDenied"
    /\ without_role(users[history[3].email])

\* a user that login returned is allowed "Create" once the caller has
\* pushed that permission onto it
C23_AllowedOnceAssigned ==
    /\ Len(history) = 4
    /\ history[3].op = "push"
    /\ history[4].op = "authorize"
    /\ unwrap(result) = Ok

\* each key of the user map maps to a user whose email is the key
C24_KeyIsEmail ==
    op = "authn" => \A email \in DOMAIN users : users[email].email = email

\* a step keeps every registered email a key of the user map
C24_KeysKept == DOMAIN users \subseteq DOMAIN users'

\* C24: in every state of the user map reachable through register, login
\* and reset_password each key maps to a user whose email equals the key,
\* and the set of registered emails never shrinks: no operation removes or
\* renames a user
C24_ImmutableIdentity == []C24_KeyIsEmail /\ [][C24_KeysKept]_vars

\* both emails registered, one of them with its password reset, then a login
C24_Witness ==
    /\ Len(history) = 4
    /\ history[1].op = "register"
    /\ history[2].op = "register"
    /\ history[3].op = "reset_password"
    /\ history[3].result = Ok
    /\ history[4].op = "login"
    /\ DOMAIN users = Emails
    /\ \A email \in Emails : users[email].email = email

====
